---- MODULE Spec2Model ----
(***************************************************************************)
(* The background stats synchronizer of src/index.js: the interval timer,  *)
(* updateAllStatsInBackground with every await of it as one step,          *)
(* fetchYouTubeStats, the Redis cache, the Song table, and the two admin   *)
(* routes that create and delete songs.                                    *)
(*                                                                         *)
(* Time is the wall clock in milliseconds.  It advances in steps of one    *)
(* cooldown; any number of steps of the program may happen at one instant. *)
(* A timer fires at or after its due time, never before.                   *)
(*                                                                         *)
(* The staleness query of line 70 names Op, which src/index.js never       *)
(* imports (line 5 takes only Sequelize and DataTypes).  The model reads   *)
(* the query as it is written for, with Sequelize's Op.lt: SelectDone.     *)
(* With the identifier unbound the expression throws inside the try block, *)
(* which is SelectFail.                                                    *)
(***************************************************************************)
EXTENDS Integers, Sequences, FiniteSets, TLC

VARIABLES now, nextFire, nextId, Song, redis, passes, requests

vars == <<now, nextFire, nextId, Song, redis, passes, requests>>

\* ---------------------------------------------------------------- bounds
MaxClockSteps == 4      \* the clock stops after this many cooldown-long steps
MaxRequests   == 1      \* admin requests served while the process runs

\* ------------------------------------------------------ program constants
COOLDOWN_MS == 30 * 1000
INTERVAL_MS == 60 * 1000
CUTOFF_MS   == 10 * 60 * 1000
TTL_MS      == 60 * 1000

Quantum == COOLDOWN_MS
EndTime == MaxClockSteps * Quantum

MediaIds   == {"abc", "xyz"}
Absent     == 0 - 1                \* a field the extractor's JSON does not have
ViewCounts == {150}                \* view_count of the payloads modelled
LikeCounts == {12, Absent}         \* like_count of the payloads modelled
Counts     == (ViewCounts \cup LikeCounts \cup {0}) \ {Absent}
NA         == "N/A"

\* ------------------------------------------------------------ cell values
\* A cell of an INTEGER column: a number, or (SQLite's type affinity keeps
\* what does not convert) a text.
IntCell(n)  == [t |-> "int",  n |-> n, s |-> ""]
TextCell(s) == [t |-> "text", n |-> 0, s |-> s]

IsDecimal(s) == \E n \in Counts : ToString(n) = s
ParseInt(s)  == CHOOSE n \in Counts : ToString(n) = s

\* What an INTEGER column stores for a bound text parameter.
Affinity(s) == IF IsDecimal(s) THEN IntCell(ParseInt(s)) ELSE TextCell(s)

\* The text of a cell, as the JSON of /api/playlists would show it.
CellText(c) == IF c.t = "int" THEN ToString(c.n) ELSE c.s

\* data.view_count?.toString() || 'N/A'
Coerce(c) == IF c = Absent THEN NA ELSE ToString(c)

JSON_stringify(stats) ==
    "{\"views\":\"" \o stats.views \o "\",\"likes\":\"" \o stats.likes \o "\"}"

NoStats == [views |-> "", likes |-> ""]
NoEntry == [value |-> "", expireAt |-> 0]

\* ---------------------------------------------------------------- tables
NewSong(id, youtubeid, playlistId, at) ==
    [id |-> id, Artist |-> "artist", title |-> "title", cover |-> "cover",
     youtubeid |-> youtubeid, views |-> IntCell(0), likes |-> IntCell(0),
     playlistId |-> playlistId, updatedAt |-> at]

\* IsStale with the where clause lost: every song selected.
IsStaleAny(song, cutoff) == TRUE

\* updatedAt: { [Op.lt]: cutoff }
IsStale(song, cutoff) == song.updatedAt < cutoff

\* An instance as the loop holds it: of its fields the loop reads youtubeid only;
\* id and updatedAt tell which row it was and what the query saw.
Instance(s) == [id |-> s.id, youtubeid |-> s.youtubeid, updatedAt |-> s.updatedAt]

\* Song.findAll({ where: { updatedAt: { [Op.lt]: cutoff } } })
Song_findAll(cutoff) == {Instance(s) : s \in {r \in Song : IsStale(r, cutoff)}}

\* Song_update made silent: updatedAt left as it was.
Song_updateSilent(stats, youtubeid) ==
    {IF s.youtubeid = youtubeid
       THEN [s EXCEPT !.views = Affinity(stats.views),
                      !.likes = Affinity(stats.likes)]
       ELSE s : s \in Song}

\* Song.update({ views, likes }, { where: { youtubeid } }): every row with the
\* media id, and Sequelize stamps updatedAt.
Song_update(stats, youtubeid) ==
    {IF s.youtubeid = youtubeid
       THEN [s EXCEPT !.views = Affinity(stats.views),
                      !.likes = Affinity(stats.likes),
                      !.updatedAt = now]
       ELSE s : s \in Song}

\* A set of rows as the array the query resolves to: in primary-key order, the
\* order of a table scan (the query has no ORDER BY).
RECURSIVE ById(_)
ById(S) ==
    IF S = {} THEN <<>>
    ELSE LET first == CHOOSE s \in S : \A r \in S : s.id <= r.id
         IN  <<first>> \o ById(S \ {first})

\* ---------------------------------------------------------------- passes
NewPass == [pc |-> "select", cutoff |-> now - CUTOFF_MS, songs |-> <<>>, i |-> 0,
            stats |-> NoStats, failed |-> FALSE, logged |-> FALSE, wakeAt |-> 0]

\* Catch throwing the error on: an unhandled rejection.
CatchRethrow(pass) == [pass EXCEPT !.pc = "escaped"]

\* catch (err) { console.error('Background stats update failed:', err); }
Catch(pass) == [pass EXCEPT !.pc = "failed", !.logged = TRUE]

\* The head of the for loop: the next song's extractor call, or the end.
LoopHead(pass, i) ==
    IF i <= Len(pass.songs)
      THEN [pass EXCEPT !.pc = "fetch", !.i = i, !.stats = NoStats, !.failed = FALSE,
                        !.wakeAt = 0]
      ELSE [pass EXCEPT !.pc = "done", !.i = i, !.stats = NoStats, !.failed = FALSE,
                        !.wakeAt = 0]

Current(pass) == pass.songs[pass.i]

ProcessAlive == \A p \in DOMAIN passes : passes[p].pc # "escaped"

\* ------------------------------------------------------------------ Init
InitAges == {0 - CUTOFF_MS, 0}

\* The tables the process may find when it starts: two songs added earlier,
\* each more than ten minutes ago or just now, with the same media id or not.
InitTables ==
    {{NewSong(1, "abc", 1, a1), NewSong(2, y2, 1, a2)} :
        <<a1, y2, a2>> \in InitAges \X MediaIds \X InitAges}

Init ==
    /\ now = 0
    /\ nextFire = INTERVAL_MS
    /\ Song \in InitTables
    /\ nextId = Cardinality(Song) + 1
    /\ redis = [k \in MediaIds |-> NoEntry]
    /\ passes = <<>>
    /\ requests = 0

\* --------------------------------------------------------------- actions
\* SleepElapsed with the sleep not awaited.
SleepNotAwaited(pass) == TRUE

\* sleep(COOLDOWN_MS): the timeout set when the durable write resolved is due.
SleepElapsed(pass) == now >= pass.wakeAt

\* A timer is due: the event loop runs it before the clock moves on.
TimerDue ==
    \/ now >= nextFire
    \/ \E p \in DOMAIN passes : passes[p].pc = "sleep" /\ SleepElapsed(passes[p])

\* The clock; Redis drops the keys whose EX has run out.
Tick ==
    /\ now < EndTime
    /\ ~TimerDue
    /\ now' = now + Quantum
    /\ redis' = [k \in MediaIds |->
                   IF redis[k] # NoEntry /\ redis[k].expireAt <= now + Quantum
                     THEN NoEntry ELSE redis[k]]
    /\ UNCHANGED <<requests, nextFire, nextId, Song, passes>>

\* setInterval(updateAllStatsInBackground, 60 * 1000): the call runs to its
\* first await, the query.
TimerFire ==
    /\ ProcessAlive
    /\ now >= nextFire
    /\ passes' = Append(passes, NewPass)
    /\ nextFire' = nextFire + INTERVAL_MS
    /\ UNCHANGED <<requests, now, nextId, Song, redis>>

SelectDone(p) ==
    /\ passes[p].pc = "select"
    /\ passes' = [passes EXCEPT ![p] =
                    LoopHead([@ EXCEPT !.songs = ById(Song_findAll(passes[p].cutoff))], 1)]
    /\ UNCHANGED <<requests, now, nextFire, nextId, Song, redis>>

SelectFail(p) ==
    /\ passes[p].pc = "select"
    /\ passes' = [passes EXCEPT ![p] = Catch(@)]
    /\ UNCHANGED <<requests, now, nextFire, nextId, Song, redis>>

\* fetchYouTubeStats, the extractor answered.
FetchOk(p) ==
    /\ passes[p].pc = "fetch"
    /\ \E view_count \in ViewCounts, like_count \in LikeCounts :
          passes' = [passes EXCEPT ![p] =
                       [@ EXCEPT !.pc = "cache",
                                 !.stats = [views |-> Coerce(view_count),
                                            likes |-> Coerce(like_count)]]]
    /\ UNCHANGED <<requests, now, nextFire, nextId, Song, redis>>

\* fetchYouTubeStats, the extractor threw: logged, the sentinel pair returned.
FetchFail(p) ==
    /\ passes[p].pc = "fetch"
    /\ passes' = [passes EXCEPT ![p] =
                    [@ EXCEPT !.pc = "cache", !.failed = TRUE,
                              !.stats = [views |-> NA, likes |-> NA]]]
    /\ UNCHANGED <<requests, now, nextFire, nextId, Song, redis>>

\* redis.set(`ytstats:${youtubeid}`, JSON.stringify(stats), 'EX', 60)
CacheSetOk(p) ==
    /\ passes[p].pc = "cache"
    /\ redis' = [redis EXCEPT ![Current(passes[p]).youtubeid] =
                   [value |-> JSON_stringify(passes[p].stats), expireAt |-> now + TTL_MS]]
    /\ passes' = [passes EXCEPT ![p].pc = "db"]
    /\ UNCHANGED <<requests, now, nextFire, nextId, Song>>

CacheSetFail(p) ==
    /\ passes[p].pc = "cache"
    /\ passes' = [passes EXCEPT ![p] = Catch(@)]
    /\ UNCHANGED <<requests, now, nextFire, nextId, Song, redis>>

\* Song.update resolved; the log line and the call of sleep follow at once.
UpdateOk(p) ==
    /\ passes[p].pc = "db"
    /\ Song' = Song_update(passes[p].stats, Current(passes[p]).youtubeid)
    /\ passes' = [passes EXCEPT ![p] = [@ EXCEPT !.pc = "sleep", !.wakeAt = now + COOLDOWN_MS]]
    /\ UNCHANGED <<requests, now, nextFire, nextId, redis>>

\* Song.update rejected: the store is down, or its INTEGER column refuses the text.
UpdateFail(p) ==
    /\ passes[p].pc = "db"
    /\ passes' = [passes EXCEPT ![p] = Catch(@)]
    /\ UNCHANGED <<requests, now, nextFire, nextId, Song, redis>>

SleepDone(p) ==
    /\ passes[p].pc = "sleep"
    /\ SleepElapsed(passes[p])
    /\ passes' = [passes EXCEPT ![p] = LoopHead(@, @.i + 1)]
    /\ UNCHANGED <<requests, now, nextFire, nextId, Song, redis>>

\* POST /admin/add-song, the session authenticated.
AddSong ==
    /\ requests < MaxRequests
    /\ requests' = requests + 1
    /\ \E youtubeid \in MediaIds, found \in BOOLEAN :
          IF found
            THEN /\ Song' = Song \cup {NewSong(nextId, youtubeid, 1, now)}
                 /\ nextId' = nextId + 1
            ELSE UNCHANGED <<Song, nextId>>
    /\ UNCHANGED <<now, nextFire, redis, passes>>

\* POST /admin/delete-song, the session authenticated.
DeleteSong ==
    /\ requests < MaxRequests
    /\ requests' = requests + 1
    /\ \E youtubeid \in MediaIds :
          Song' = {s \in Song : s.youtubeid # youtubeid}
    /\ UNCHANGED <<now, nextFire, nextId, redis, passes>>

Next ==
    \/ Tick
    \/ TimerFire
    \/ AddSong
    \/ DeleteSong
    \/ \E p \in DOMAIN passes : SelectDone(p)
    \/ \E p \in DOMAIN passes : SelectFail(p)
    \/ \E p \in DOMAIN passes : FetchOk(p)
    \/ \E p \in DOMAIN passes : FetchFail(p)
    \/ \E p \in DOMAIN passes : CacheSetOk(p)
    \/ \E p \in DOMAIN passes : CacheSetFail(p)
    \/ \E p \in DOMAIN passes : UpdateOk(p)
    \/ \E p \in DOMAIN passes : UpdateFail(p)
    \/ \E p \in DOMAIN passes : SleepDone(p)

Spec == Init /\ [][Next]_vars

\* ---------------------------------------------------------------- claims
Sentinel == [views |-> NA, likes |-> NA]

Running(pass) == pass.pc \in {"select", "fetch", "cache", "db", "sleep"}

StartedAt(pass) == pass.cutoff + CUTOFF_MS

SnapshotIds(pass) == {pass.songs[k].id : k \in 1..Len(pass.songs)}

\* The step is pass p going from one place of the loop to another.
Moves(p, from, to) == passes[p].pc = from /\ passes'[p].pc = to

C5_CooldownBetweenFetches ==
    \A p \in DOMAIN passes :
       LET pass == passes[p]
       IN  /\ pass.pc \in {"fetch", "cache", "db", "sleep"} =>
                now - StartedAt(pass) >= (pass.i - 1) * COOLDOWN_MS
           /\ pass.pc = "done" =>
                now - StartedAt(pass) >= (Len(pass.songs) - 1) * COOLDOWN_MS
           /\ (pass.pc = "fetch" /\ pass.i > 1 /\ Len(passes) = 1 /\ requests = 0) =>
                \A s \in Song :
                   s.youtubeid = pass.songs[pass.i - 1].youtubeid =>
                      s.updatedAt + COOLDOWN_MS <= now

\* A pass has its second extractor call out, the first song written.
C5_Witness ==
    \E p \in DOMAIN passes :
       /\ passes[p].pc = "fetch" /\ passes[p].i = 2
       /\ \E s \in Song : s.id = passes[p].songs[1].id /\ s.updatedAt >= StartedAt(passes[p])

C7_FailuresCaughtTimerGoesOn ==
    /\ ProcessAlive
    /\ \A p \in DOMAIN passes : passes[p].pc = "failed" => passes[p].logged
    /\ nextFire = (Len(passes) + 1) * INTERVAL_MS
    /\ now >= nextFire => ENABLED TimerFire

\* A pass ended by a failure at one of its writes, and a later tick has fired.
C7_Witness ==
    \E p, q \in DOMAIN passes :
       /\ p < q
       /\ passes[p].pc = "failed" /\ passes[p].i >= 1
       /\ passes[q].pc = "select"

====
